---- MODULE Spec2Model ----
(***************************************************************************)
(* The trivia round lifecycle of src/src/app.ts (the second, current copy  *)
(* of the server, lines 193-977) with the ledger calls of                  *)
(* src/src/service/service.ts.                                             *)
(*                                                                         *)
(* One action is one run of a handler or timer callback between two        *)
(* suspension points: Node runs such a segment without interleaving, and   *)
(* an `await` of a ledger call ends the segment.  The ledger operation of  *)
(* an awaited call takes effect in the step that resumes the handler.      *)
(*                                                                         *)
(* Time is counted in seconds and advances by Quantum.  A timestamp is     *)
(* kept as its age (Date.now() - timestamp) and an armed timer as the      *)
(* delay it has left; a timer may fire at any moment from the one it is    *)
(* due.  A timer handle is modelled by the delay left of the timer it      *)
(* names.  A ledger call returns within the quantum in which it was made:  *)
(* the clock does not advance while a handler is suspended.                *)
(*                                                                         *)
(* Each specification lets a set of connections send a set of messages;    *)
(* all of them share the actions below.                                    *)
(***************************************************************************)
EXTENDS Integers, FiniteSets, Bags, TLC

\* ---------------------------------------------------------------- constants
QUESTION_DURATION == 30
WAIT_DURATION == 30
RESULT_DELAY == 15
\* RECONNECT_GRACE_MS / 1000
RECONNECT_GRACE == 10
SPECIAL_USER_ID == "s"
\* triviaUsers.length >= 2
MIN_PLAYERS == 2

\* ------------------------------------------------------------------- bounds
\* seconds by which the clock advances in one step
Quantum == 15
\* a shorter step of the clock, for what happens between two timers
ShortQuantum == 10
\* rounds that may be started
MaxRound == 2
\* tokens every account holds at the start
InitTokens == 1

Users == {"a", "b", "s"}
Sockets == {"a1", "a2", "b1", "s1"}
Questions == {"q1", "q2"}
\* the question rows at the start: q2 was answered in an earlier run
UsedAtStart == {"q2"}
\* answer texts a client may submit
Texts == {"Paris", " paris ", "Rome"}

NoUser == "null"
NoQuestion == "null"
NoSocket == "none"
NoText == "none"
All == "all"
NoTime == -1
NoTimer == -1
\* a handle whose timer has fired and that was not set to null
Fired == -2

\* the client behind a connection sends its own identity
Owner(s) ==
  CASE s = "a1" -> "a" [] s = "a2" -> "a" [] s = "b1" -> "b" [] OTHER -> "s"

\* ------------------------------------------------------------ question rows
Answer(q) == "Paris"
Difficulty(q) == IF q = "q1" THEN "easy" ELSE "hard"
Reward(q) == IF q = "q1" THEN 100 ELSE 250

\* String.prototype.trim on the texts of the model
Trim(t) == IF t = " paris " THEN "paris" ELSE t
\* String.prototype.toLowerCase on the texts of the model
ToLowerCase(t) ==
  CASE t = "Paris" -> "paris"
    [] t = "Rome" -> "rome"
    [] OTHER -> t

Min(x, y) == IF x < y THEN x ELSE y
Max(x, y) == IF x > y THEN x ELSE y

VARIABLES
  onlineUsers,        \* presence registry: sequence of [userId, exp, socketId]
  triviaUsers,        \* trivia room membership: sequence of [userId, exp, socketId]
  roomUsers,          \* gameRooms entry "general": its users count
  currentRound,
  currentQuestion,
  winnerDeclared,
  questionStartTime,  \* NoTime, or the age of the timestamp
  waitStartTime,      \* NoTime, or the age of the timestamp
  roundTimeout,       \* handles
  waitTimeout,
  resultTimeout,
  startingQuestion,
  submissions,        \* userId -> trimmed text, NoText when absent
  firstCorrectUser,
  disconnectTimers,   \* userId -> handle
  timers,             \* armed timers: [kind, user, rem]
  closed,             \* connections that have disconnected
  tokens, balance, exp,   \* ledger: user rows
  used, answeredBy,       \* ledger: question rows
  joining,            \* user:join handlers suspended on getUserById
  answering,          \* quiz:answer handlers suspended on useToken
  starting,           \* startNewQuestion suspended on getAndUpdateQuestion
  sampled,            \* the question its $sample stage picked, not yet flagged
  resolving,          \* emitResults runs suspended on a ledger call
  credits,            \* history: round -> number of addBalance calls made for it
  out,                \* events emitted by the last step
  dropped             \* the connection whose quiz:answer the last step dropped

roomVars == <<onlineUsers, triviaUsers, roomUsers>>
roundVars == <<currentRound, currentQuestion, winnerDeclared, questionStartTime,
               submissions, firstCorrectUser>>
timerVars == <<waitStartTime, roundTimeout, waitTimeout, resultTimeout,
               disconnectTimers, timers>>
ledgerVars == <<tokens, balance, exp, used, answeredBy>>
flightVars == <<startingQuestion, joining, answering, starting, sampled, resolving>>
vars == <<roomVars, roundVars, timerVars, ledgerVars, flightVars, closed,
          credits, out, dropped>>

\* ------------------------------------------------------------------ helpers
\* an emitted event: receiver, name, and the payload fields the events carry
Ev(to, ev, n, round, who, msg) ==
  [to |-> to, ev |-> ev, n |-> n, round |-> round, who |-> who, msg |-> msg]

\* the bag holding x once
One(x) == SetToBag({x})

\* The two lists hold at most one entry per identity as long as every push
\* is guarded by a find; no handler reads the position of an entry.  A list
\* is kept as the set of its entries.
NoEntry == [userId |-> NoUser, exp |-> 0, socketId |-> NoSocket]

\* a find that never finds the entry
HasNever(list, u) == FALSE

\* list.find((x) => x.userId === u) finds an entry
Has(list, u) == \E x \in list : x.userId = u

\* Array.prototype.find by userId
Find(list, u) ==
  IF Has(list, u) THEN CHOOSE x \in list : x.userId = u ELSE NoEntry

HasSocket(list, s) == \E x \in list : x.socketId = s

\* onlineUsers.find((u) => u.socketId === socket.id)
FindSocket(list, s) ==
  IF HasSocket(list, s) THEN CHOOSE x \in list : x.socketId = s ELSE NoEntry

\* list.filter((x) => x.userId !== u)
Filter(list, u) == {x \in list : x.userId # u}

\* list.push(entry)
Push(list, entry) == list \cup {entry}

\* list.length
Length(list) == Cardinality(list)

\* a re-join that drops the entry it should update
SetSocketDropped(list, u, s) == {x \in list : x.userId # u}

\* list.map((x) => x.userId === u ? { ...x, socketId: s } : x)
SetSocket(list, u, s) ==
  {IF x.userId = u THEN [x EXCEPT !.socketId = s] ELSE x : x \in list}

SetExp(list, u, e) ==
  {IF x.userId = u THEN [x EXCEPT !.exp = e] ELSE x : x \in list}

SocketsOf(list) == {x.socketId : x \in list}

\* a room directory that keeps its old count
GameRoomsStale(tu) == roomUsers

\* gameRooms.map((r) => r.name === "general" ? {...r, users: tu.length} : r):
\* the users count of the entry "general"
GameRooms(tu) == Length(tu)

Timer(kind, u, rem) == [kind |-> kind, user |-> u, rem |-> rem]

\* a clearTimeout that cancels nothing
ClearTimeoutNot(ts, kind, u, h) == ts

\* clearTimeout(h) for a handle of the given kind
ClearTimeout(ts, kind, u, h) == ts \ {Timer(kind, u, h)}

Pending(kind) == {t \in timers : t.kind = kind}


\* ------------------------------------------------------------------ initial
Init ==
  /\ onlineUsers = {}
  /\ triviaUsers = {}
  /\ roomUsers = 0
  /\ currentRound = 0
  /\ currentQuestion = NoQuestion
  /\ winnerDeclared = FALSE
  /\ questionStartTime = NoTime
  /\ waitStartTime = NoTime
  /\ roundTimeout = NoTimer
  /\ waitTimeout = NoTimer
  /\ resultTimeout = NoTimer
  /\ startingQuestion = FALSE
  /\ submissions = [u \in Users |-> NoText]
  /\ firstCorrectUser = NoUser
  /\ disconnectTimers = [u \in Users |-> NoTimer]
  /\ timers = {}
  /\ closed = {}
  /\ tokens = [u \in Users |-> InitTokens]
  /\ balance = [u \in Users |-> 0]
  /\ exp = [u \in Users |-> 0]
  /\ used = [q \in Questions |-> q \in UsedAtStart]
  /\ answeredBy = [q \in Questions |-> IF q \in UsedAtStart THEN "b" ELSE NoUser]
  /\ joining = {}
  /\ answering = EmptyBag
  /\ starting = 0
  /\ sampled = NoQuestion
  /\ resolving = EmptyBag
  /\ credits = [r \in 1..MaxRound |-> 0]
  /\ out = {}
  /\ dropped = NoSocket

\* --------------------------------------------------------------------- time
\* an age is counted up to one quantum past its duration: beyond it every
\* reader of the timestamp sees the same
Older(a, duration) ==
  IF a = NoTime THEN NoTime ELSE Min(duration + Quantum, a + Quantum)
Less(h) == IF h > 0 THEN Max(0, h - Quantum) ELSE h

\* no handler is suspended on a ledger call
Settled ==
  /\ joining = {}
  /\ answering = EmptyBag
  /\ starting = 0
  /\ resolving = EmptyBag

\* Quantum seconds pass: timestamps age, armed timers come nearer
Tick ==
  /\ Settled
  /\ questionStartTime' = Older(questionStartTime, QUESTION_DURATION)
  /\ waitStartTime' = Older(waitStartTime, WAIT_DURATION)
  /\ timers' = {[t EXCEPT !.rem = Less(t.rem)] : t \in timers}
  /\ roundTimeout' = Less(roundTimeout)
  /\ waitTimeout' = Less(waitTimeout)
  /\ resultTimeout' = Less(resultTimeout)
  /\ disconnectTimers' = [u \in Users |-> Less(disconnectTimers[u])]
  /\ <<questionStartTime', waitStartTime', timers'>> #
       <<questionStartTime, waitStartTime, timers>>
  /\ out' = {}
  /\ dropped' = NoSocket
  /\ UNCHANGED <<roomVars, currentRound, currentQuestion, winnerDeclared,
                 submissions, firstCorrectUser, ledgerVars, flightVars, closed,
                 credits>>

\* the same with a step of d seconds
OlderBy(a, duration, d) ==
  IF a = NoTime THEN NoTime ELSE Min(duration + d, a + d)
LessBy(h, d) == IF h > 0 THEN Max(0, h - d) ELSE h

\* ShortQuantum seconds pass
TickShort ==
  /\ Settled
  /\ questionStartTime' =
       OlderBy(questionStartTime, QUESTION_DURATION, ShortQuantum)
  /\ waitStartTime' = OlderBy(waitStartTime, WAIT_DURATION, ShortQuantum)
  /\ timers' = {[t EXCEPT !.rem = LessBy(t.rem, ShortQuantum)] : t \in timers}
  /\ roundTimeout' = LessBy(roundTimeout, ShortQuantum)
  /\ waitTimeout' = LessBy(waitTimeout, ShortQuantum)
  /\ resultTimeout' = LessBy(resultTimeout, ShortQuantum)
  /\ disconnectTimers' =
       [u \in Users |-> LessBy(disconnectTimers[u], ShortQuantum)]
  /\ <<questionStartTime', waitStartTime', timers'>> #
       <<questionStartTime, waitStartTime, timers>>
  /\ out' = {}
  /\ dropped' = NoSocket
  /\ UNCHANGED <<roomVars, currentRound, currentQuestion, winnerDeclared,
                 submissions, firstCorrectUser, ledgerVars, flightVars, closed,
                 credits>>

\* --------------------------------------------------------------- grace timer
\* console.log of a join that finds a handle in disconnectTimers
Reconnected(u) ==
  IF disconnectTimers[u] # NoTimer
  THEN {Ev("console", "reconnected", 0, 0, u, "")}
  ELSE {}

\* a reconnect that leaves the grace timer armed
ClearDisconnectTimerNot(u) == timers

\* clearDisconnectTimer(userId): the armed timers left
ClearDisconnectTimer(u) ==
  ClearTimeout(timers, "grace", u, disconnectTimers[u])

\* ------------------------------------------------------- startWaitingPeriod
WaitingEvents(emitToAll, tu) ==
  IF emitToAll
  THEN {Ev(s, "quiz:waiting", WAIT_DURATION, 0, NoUser, "") : s \in SocketsOf(tu)}
  ELSE {}

\* startWaitingPeriod(emitToAll), called with the armed timers ts, the trivia
\* room tu and the events evs the caller has emitted so far
StartWaitingPeriod(emitToAll, ts, tu, evs) ==
  /\ timers' = ClearTimeout(ts, "wait", NoUser, waitTimeout)
                 \cup {Timer("wait", NoUser, WAIT_DURATION)}
  /\ waitStartTime' = 0
  /\ waitTimeout' = WAIT_DURATION
  /\ out' = evs \cup WaitingEvents(emitToAll, tu)

\* a start condition that does not count the participants
CanStartWaitingAlone(tu) ==
  /\ waitTimeout = NoTimer
  /\ roundTimeout = NoTimer
  /\ currentQuestion = NoQuestion

\* the condition under which a join starts the waiting period
CanStartWaiting(tu) ==
  /\ Length(tu) >= MIN_PLAYERS
  /\ waitTimeout = NoTimer
  /\ roundTimeout = NoTimer
  /\ currentQuestion = NoQuestion

\* a sync that restarts the clock
QuestionTimeLeftRestarted == QUESTION_DURATION

\* timeLeft of a question sync: Math.max(0, QUESTION_DURATION - elapsed)
QuestionTimeLeft == Max(0, QUESTION_DURATION - questionStartTime)
\* timeLeft of a waiting sync: Math.max(0, WAIT_DURATION - elapsed)
WaitTimeLeft(wst) == Max(0, WAIT_DURATION - wst)

\* a waiting sync without the timeLeft > 0 test
SendsWaitingStale(wst) == wst # NoTime

\* if (waitStartTime) { ... if (timeLeft > 0) emit quiz:waiting }
SendsWaiting(wst) == wst # NoTime /\ WaitTimeLeft(wst) > 0

QuestionEvent(s, timeLeft) ==
  Ev(s, "quiz:question", timeLeft, currentRound, NoUser, currentQuestion)

\* ---------------------------------------------------------------- user:join
\* user:join with a valid payload, up to the await of getUserById
UserJoin(s) ==
  LET u == Owner(s) IN
  /\ s \notin closed
  /\ [userId |-> u, socketId |-> s] \notin joining
  /\ timers' = ClearDisconnectTimer(u)
  /\ disconnectTimers' = [disconnectTimers EXCEPT ![u] = NoTimer]
  /\ joining' = joining \cup {[userId |-> u, socketId |-> s]}
  /\ out' = Reconnected(u)
  /\ dropped' = NoSocket
  /\ UNCHANGED <<roomVars, roundVars, waitStartTime, roundTimeout, waitTimeout,
                 resultTimeout, ledgerVars, startingQuestion, answering,
                 starting, sampled, resolving, closed, credits>>

\* user:join from the return of getUserById to the end of the handler
UserJoinResume(j) ==
  LET u == j.userId
      s == j.socketId
      e == exp[u]
      ou == IF Has(onlineUsers, u)
            THEN SetExp(SetSocket(onlineUsers, u, s), u, e)
            ELSE Push(onlineUsers, [userId |-> u, exp |-> e, socketId |-> s])
      evs == {Ev(s, "rooms:list", roomUsers, 0, NoUser, ""),
              Ev(All, "players:update", Length(ou), 0, NoUser, "")}
      inTrivia == Has(triviaUsers, u)
  IN
  /\ j \in joining
  /\ joining' = joining \ {j}
  /\ onlineUsers' = ou
  /\ IF inTrivia /\ currentQuestion # NoQuestion /\ questionStartTime # NoTime
     THEN /\ out' = evs \cup {QuestionEvent(s, QuestionTimeLeft)}
          /\ UNCHANGED <<timers, waitStartTime, waitTimeout>>
     ELSE IF inTrivia /\ SendsWaiting(waitStartTime)
     THEN /\ out' = evs \cup {Ev(s, "quiz:waiting", WaitTimeLeft(waitStartTime),
                                 0, NoUser, "")}
          /\ UNCHANGED <<timers, waitStartTime, waitTimeout>>
     ELSE IF CanStartWaiting(triviaUsers)
     THEN StartWaitingPeriod(TRUE, timers, triviaUsers, evs)
     ELSE /\ out' = evs
          /\ UNCHANGED <<timers, waitStartTime, waitTimeout>>
  /\ dropped' = NoSocket
  /\ UNCHANGED <<triviaUsers, roomUsers, roundVars, roundTimeout, resultTimeout,
                 disconnectTimers, ledgerVars, startingQuestion, answering,
                 starting, sampled, resolving, closed, credits>>

\* ---------------------------------------------------------------- room:join
\* room:join {room: "general"} with a valid payload
RoomJoin(s) ==
  LET u == Owner(s)
      tu == IF Has(triviaUsers, u)
            THEN SetSocket(triviaUsers, u, s)
            ELSE Push(triviaUsers,
                        [userId |-> u,
                         exp |-> IF Has(onlineUsers, u)
                                 THEN Find(onlineUsers, u).exp ELSE 0,
                         socketId |-> s])
      ts == ClearDisconnectTimer(u)
      evs == Reconnected(u)
               \cup {Ev(All, "rooms:update", GameRooms(tu), 0, NoUser, ""),
                     Ev(s, "room:joined", 0, 0, NoUser, "general")}
      caseA == CanStartWaiting(tu)
      wst == IF caseA THEN 0 ELSE waitStartTime
      caseB == IF SendsWaiting(wst)
               THEN {Ev(s, "quiz:waiting", WaitTimeLeft(wst), 0, NoUser, "")}
               ELSE {}
      caseC == IF currentQuestion # NoQuestion /\ questionStartTime # NoTime
               THEN {QuestionEvent(s, QuestionTimeLeft)}
               ELSE {}
  IN
  /\ s \notin closed
  /\ disconnectTimers' = [disconnectTimers EXCEPT ![u] = NoTimer]
  /\ triviaUsers' = tu
  /\ roomUsers' = GameRooms(tu)
  /\ IF caseA
     THEN StartWaitingPeriod(TRUE, ts, tu, evs \cup caseB \cup caseC)
     ELSE /\ timers' = ts
          /\ out' = evs \cup caseB \cup caseC
          /\ UNCHANGED <<waitStartTime, waitTimeout>>
  /\ dropped' = NoSocket
  /\ UNCHANGED <<onlineUsers, roundVars, roundTimeout, resultTimeout,
                 ledgerVars, flightVars, closed, credits>>

\* room:join {room: "pick-a-row"}
RoomJoinPickARow(s) ==
  LET u == Owner(s) IN
  /\ s \notin closed
  /\ timers' = ClearDisconnectTimer(u)
  /\ disconnectTimers' = [disconnectTimers EXCEPT ![u] = NoTimer]
  /\ out' = Reconnected(u)
              \cup {Ev(s, "room:joined", 0, 0, NoUser, "pick-a-row"),
                    Ev(s, "pickarow:start", 0, 0, NoUser, "")}
  /\ dropped' = NoSocket
  /\ UNCHANGED <<roomVars, roundVars, waitStartTime, roundTimeout, waitTimeout,
                 resultTimeout, ledgerVars, flightVars, closed, credits>>


\* -------------------------------------------------------------- quiz:answer
\* the checks without the deadline
AnswerAcceptedLate(u) ==
  /\ Has(triviaUsers, u)
  /\ currentQuestion # NoQuestion
  /\ questionStartTime # NoTime

\* the checks without the membership of the trivia room
AnswerAcceptedFromAnyone(u) ==
  /\ currentQuestion # NoQuestion
  /\ questionStartTime # NoTime
  /\ ~(questionStartTime >= QUESTION_DURATION)

\* the checks of quiz:answer before the token is deducted
AnswerAccepted(u) ==
  /\ Has(triviaUsers, u)
  /\ currentQuestion # NoQuestion
  /\ questionStartTime # NoTime
  /\ ~(questionStartTime >= QUESTION_DURATION)

\* the connections whose quiz:answer handler is suspended on useToken; a
\* handler keeps those it found on arrival in its history field behind
Suspended == {x.socketId : x \in BagToSet(answering)}

\* quiz:answer up to the await of useToken, or to the return that drops the
\* message; stale tells whether the payload's round differs from currentRound
\* (the handler does not read that field)
ReceiveAnswer(s, text, stale) ==
  LET u == Owner(s) IN
  /\ s \notin closed
  \* a client sends its next answer once the last one has been handled
  /\ \A h \in BagToSet(answering) : h.socketId # s
  /\ answering' = IF AnswerAccepted(u)
                  THEN answering (+) One([userId |-> u, socketId |-> s,
                                          answer |-> text, stale |-> stale,
                                          behind |-> Suspended])
                  ELSE answering
  /\ out' = {}
  /\ dropped' = IF AnswerAccepted(u) THEN NoSocket ELSE s
  /\ UNCHANGED <<roomVars, roundVars, timerVars, ledgerVars, startingQuestion,
                 joining, starting, sampled, resolving, closed, credits>>

QuizAnswer(s, text) == ReceiveAnswer(s, text, FALSE)

\* a quiz:answer whose round is not the current round
QuizAnswerStaleRound(s, text) == ReceiveAnswer(s, text, TRUE)

\* a filter without tokens: {$gte: amount}
UseTokenMatchesAnyRow(u) == TRUE

\* GameService.useToken(userId, 1): whether a row matches the filter
UseTokenMatches(u) == tokens[u] >= 1

\* the comparison of a submitted text with the canonical answer
IsCorrect(text, q) ==
  /\ q # NoQuestion
  /\ ToLowerCase(Trim(text)) = ToLowerCase(Answer(q))

\* a first correct responder that every correct submission replaces
TakesFirstAgain(text) == IsCorrect(text, currentQuestion)

\* whether an accepted correct submission becomes the first correct responder
TakesFirst(text) == IsCorrect(text, currentQuestion) /\ firstCorrectUser = NoUser


\* quiz:answer from the return of useToken to the end of the handler
QuizAnswerResume(h) ==
  LET u == h.userId IN
  /\ BagIn(h, answering)
  /\ answering' = answering (-) One(h)
  /\ IF UseTokenMatches(u) /\ h.answer = NoText
     \* answer.trim() throws on a payload without answer: the catch block
     THEN /\ tokens' = [tokens EXCEPT ![u] = @ - 1]
          /\ out' = {Ev(h.socketId, "quiz:userUpdate", tokens[u] - 1, 0, u, ""),
                     Ev(h.socketId, "quiz:error", 0, 0, NoUser,
                        "Failed to submit answer")}
          /\ UNCHANGED <<submissions, firstCorrectUser, resultTimeout, timers>>
     ELSE IF UseTokenMatches(u)
     THEN /\ tokens' = [tokens EXCEPT ![u] = @ - 1]
          /\ submissions' = [submissions EXCEPT ![u] = Trim(h.answer)]
          /\ out' = {Ev(h.socketId, "quiz:userUpdate", tokens[u] - 1, 0, u, "")}
          /\ IF TakesFirst(h.answer)
             THEN /\ firstCorrectUser' = u
                  /\ IF resultTimeout = NoTimer
                     THEN /\ resultTimeout' = RESULT_DELAY
                          /\ timers' = timers \cup
                                         {Timer("result", NoUser, RESULT_DELAY)}
                     ELSE UNCHANGED <<resultTimeout, timers>>
             ELSE UNCHANGED <<firstCorrectUser, resultTimeout, timers>>
     ELSE /\ out' = {Ev(h.socketId, "quiz:error", 0, 0, NoUser,
                        "User not found or insufficient tokens")}
          /\ UNCHANGED <<tokens, submissions, firstCorrectUser, resultTimeout,
                         timers>>
  /\ dropped' = NoSocket
  /\ UNCHANGED <<roomVars, currentRound, currentQuestion, winnerDeclared,
                 questionStartTime, waitStartTime, roundTimeout, waitTimeout,
                 disconnectTimers, balance, exp, used, answeredBy,
                 startingQuestion, joining, starting, sampled, resolving, closed,
                 credits>>

\* ------------------------------------------------------- malformed payloads
\* a handler that answers a payload without a required field
Invalid(s, message) ==
  /\ s \notin closed
  /\ out' = {Ev(s, "quiz:error", 0, 0, NoUser, message)}
  /\ dropped' = NoSocket
  /\ UNCHANGED <<roomVars, roundVars, timerVars, ledgerVars, flightVars,
                 closed, credits>>

\* user:join without userId or username
UserJoinInvalid(s) == Invalid(s, "Invalid join payload")

\* room:join without userId, username or room
RoomJoinInvalid(s) == Invalid(s, "Invalid room join request")

\* room:leave without userId or room
RoomLeaveInvalid(s) == Invalid(s, "Invalid room leave payload")

\* --------------------------------------------------------------- room:leave
\* room:leave {room: "general"} with a valid payload
RoomLeave(s) ==
  LET u == Owner(s)
      tu == Filter(triviaUsers, u)
  IN
  /\ s \notin closed
  /\ triviaUsers' = tu
  /\ roomUsers' = GameRooms(tu)
  /\ out' = {Ev(All, "rooms:update", GameRooms(tu), 0, NoUser, ""),
             Ev(s, "room:left", 0, 0, NoUser, "general")}
  /\ dropped' = NoSocket
  /\ UNCHANGED <<onlineUsers, roundVars, timerVars, ledgerVars, flightVars,
                 closed, credits>>

\* --------------------------------------------------------------- disconnect
\* the connection closes: the disconnect handler
Disconnect(s) ==
  /\ s \notin closed
  /\ closed' = closed \cup {s}
  /\ IF HasSocket(onlineUsers, s)
     THEN LET user == FindSocket(onlineUsers, s)
          IN /\ disconnectTimers' =
                  [disconnectTimers EXCEPT ![user.userId] = RECONNECT_GRACE]
             /\ timers' = timers \cup
                            {Timer("grace", user.userId, RECONNECT_GRACE)}
     ELSE UNCHANGED <<disconnectTimers, timers>>
  /\ out' = {}
  /\ dropped' = NoSocket
  /\ UNCHANGED <<roomVars, roundVars, waitStartTime, roundTimeout, waitTimeout,
                 resultTimeout, ledgerVars, flightVars, credits>>

\* the grace timer of user u fires
GraceTimeout(u) ==
  LET t == Timer("grace", u, 0)
      ou == Filter(onlineUsers, u)
      tu == Filter(triviaUsers, u)
      evs == {Ev(All, "players:update", Length(ou), 0, NoUser, ""),
              Ev(All, "rooms:update", GameRooms(tu), 0, NoUser, "")}
  IN
  /\ t \in timers
  /\ onlineUsers' = ou
  /\ triviaUsers' = tu
  /\ roomUsers' = GameRooms(tu)
  \* the callback does not delete its handle from disconnectTimers
  /\ disconnectTimers' = [disconnectTimers EXCEPT
                            ![u] = IF @ = 0 THEN Fired ELSE @]
  /\ IF Length(tu) < MIN_PLAYERS
     THEN /\ timers' = ClearTimeout(
                         ClearTimeout(
                           ClearTimeout(timers \ {t}, "round", NoUser, roundTimeout),
                           "wait", NoUser, waitTimeout),
                         "result", NoUser, resultTimeout)
          /\ roundTimeout' = NoTimer
          /\ waitTimeout' = NoTimer
          /\ resultTimeout' = NoTimer
          /\ currentQuestion' = NoQuestion
          /\ submissions' = [x \in Users |-> NoText]
          /\ questionStartTime' = NoTime
          /\ waitStartTime' = NoTime
          /\ winnerDeclared' = FALSE
          /\ firstCorrectUser' = NoUser
          /\ out' = evs \cup {Ev(All, "quiz:stopped", 0, 0, NoUser, "")}
     ELSE /\ timers' = timers \ {t}
          /\ out' = evs
          /\ UNCHANGED <<roundTimeout, waitTimeout, resultTimeout,
                         currentQuestion, submissions, questionStartTime,
                         waitStartTime, winnerDeclared, firstCorrectUser>>
  /\ dropped' = NoSocket
  /\ UNCHANGED <<currentRound, ledgerVars, flightVars, closed, credits>>


\* -------------------------------------------------------------- emitResults
NoSubmissions == [x \in Users |-> NoText]

\* the outcome event of one participant in the loop over triviaUsers
Outcome(p, special, winner) ==
  LET submitted == submissions[p.userId]
      info == Ev(p.socketId, "quiz:end", WAIT_DURATION, currentRound, winner, "")
  IN
  IF submitted = NoText THEN {[info EXCEPT !.msg = "No response submitted."]}
  ELSE IF ToLowerCase(Trim(submitted)) = ToLowerCase(Answer(currentQuestion))
  THEN IF (special # NoUser /\ p.userId = special)
          \/ (firstCorrectUser # NoUser /\ p.userId = firstCorrectUser)
       THEN {}
       ELSE {[info EXCEPT !.msg = "Correct, but not the fastest!"]}
  ELSE {[info EXCEPT !.msg = "Wrong answer!"]}

\* emitResults from the outcome loop to its end.  ts: the armed timers,
\* rt, rs: the handles roundTimeout and resultTimeout hold, tu, ou: the two
\* lists, special: the special user found at the start, winner: winnerInfo,
\* evs: what the run has emitted already
FinishResults(ts, rt, rs, tu, ou, special, winner, evs) ==
  LET outcomes == UNION {Outcome(p, special, winner) : p \in tu}
      done == evs \cup outcomes
                \cup {Ev(All, "players:update", Length(ou), 0, NoUser, "")}
      left == ClearTimeout(ClearTimeout(ts, "round", NoUser, rt),
                           "result", NoUser, rs)
  IN
  /\ roundTimeout' = NoTimer
  /\ resultTimeout' = NoTimer
  /\ currentQuestion' = NoQuestion
  /\ submissions' = NoSubmissions
  /\ firstCorrectUser' = NoUser
  /\ winnerDeclared' = TRUE
  /\ IF Length(tu) >= MIN_PLAYERS
     THEN StartWaitingPeriod(FALSE, left, tu, done)
     ELSE /\ timers' = left
          /\ out' = done \cup {Ev(All, "quiz:stopped", 0, 0, NoUser, "")}
          /\ UNCHANGED <<waitStartTime, waitTimeout>>

\* a choice of the rewarded participant that knows no special user
WinnerOfFirstCorrect(tu) ==
  IF firstCorrectUser # NoUser THEN Find(tu, firstCorrectUser) ELSE NoEntry

\* the participant emitResults rewards: the special user when in the room,
\* else the first correct responder when still in the room
WinnerOf(tu) ==
  IF Has(tu, SPECIAL_USER_ID) THEN Find(tu, SPECIAL_USER_ID)
  ELSE IF firstCorrectUser # NoUser THEN Find(tu, firstCorrectUser)
  ELSE NoEntry

\* emitResults() called by a timer callback that leaves the armed timers ts
\* and the handles rt, rs: up to the await of addBalance, or to the end when
\* nobody is rewarded
EmitResults(ts, rt, rs) ==
  IF currentQuestion = NoQuestion
  THEN /\ timers' = ts
       /\ roundTimeout' = rt
       /\ resultTimeout' = rs
       /\ out' = {}
       /\ UNCHANGED <<currentQuestion, submissions, firstCorrectUser,
                      winnerDeclared, waitStartTime, waitTimeout, resolving>>
  ELSE
    LET w == WinnerOf(triviaUsers) IN
    IF w.userId # NoUser
    THEN /\ resolving' = resolving (+) One(
              [pc |-> "addBalance",
               special |-> IF Has(triviaUsers, SPECIAL_USER_ID)
                           THEN SPECIAL_USER_ID ELSE NoUser,
               userId |-> w.userId, socketId |-> w.socketId,
               reward |-> Reward(currentQuestion), round |-> currentRound,
               exp |-> 0, qid |-> NoQuestion, wrote |-> FALSE])
         /\ timers' = ts
         /\ roundTimeout' = rt
         /\ resultTimeout' = rs
         /\ out' = {}
         /\ UNCHANGED <<currentQuestion, submissions, firstCorrectUser,
                        winnerDeclared, waitStartTime, waitTimeout>>
    ELSE /\ FinishResults(ts, rt, rs, triviaUsers, onlineUsers,
                          IF Has(triviaUsers, SPECIAL_USER_ID)
                          THEN SPECIAL_USER_ID ELSE NoUser,
                          NoUser, {})
         /\ UNCHANGED resolving

\* the resolution-delay timer fires: () => { emitResults(); }
ResultTimeout ==
  LET t == Timer("result", NoUser, 0) IN
  /\ t \in timers
  /\ EmitResults(timers \ {t}, roundTimeout,
                 IF resultTimeout = 0 THEN Fired ELSE resultTimeout)
  /\ dropped' = NoSocket
  /\ UNCHANGED <<roomVars, currentRound, questionStartTime, disconnectTimers,
                 ledgerVars, startingQuestion, joining, answering, starting, sampled,
                 closed, credits>>

\* the question-deadline timer fires
RoundTimeout ==
  LET t == Timer("round", NoUser, 0) IN
  /\ t \in timers
  /\ IF ~winnerDeclared /\ currentQuestion # NoQuestion
     THEN EmitResults(timers \ {t}, NoTimer, resultTimeout)
     ELSE /\ timers' = timers \ {t}
          /\ roundTimeout' = NoTimer
          /\ out' = {}
          /\ UNCHANGED <<resultTimeout, currentQuestion, submissions,
                         firstCorrectUser, winnerDeclared, waitStartTime,
                         waitTimeout, resolving>>
  /\ dropped' = NoSocket
  /\ UNCHANGED <<roomVars, currentRound, questionStartTime, disconnectTimers,
                 ledgerVars, startingQuestion, joining, answering, starting, sampled,
                 closed, credits>>

\* GameService.addBalance(userId, amount): the balance after the $inc
AddBalance(u, amount) == balance[u] + amount

\* emitResults from the return of addBalance to the await of updateExp
ResumeAddBalance(r) ==
  /\ BagIn(r, resolving)
  /\ r.pc = "addBalance"
  /\ balance' = [balance EXCEPT ![r.userId] = AddBalance(r.userId, r.reward)]
  /\ credits' = [credits EXCEPT ![r.round] = @ + 1]
  /\ resolving' = (resolving (-) One(r)) (+)
                    One([r EXCEPT !.pc = "updateExp", !.exp = exp[r.userId] + 1])
  /\ out' = {}
  /\ dropped' = NoSocket
  /\ UNCHANGED <<roomVars, roundVars, timerVars, tokens, exp, used, answeredBy,
                 startingQuestion, joining, answering, starting, sampled, closed>>

\* emitResults from the return of updateExp to the await of markAnswered;
\* wrote records whether the map changed an entry of onlineUsers
ResumeUpdateExp(r) ==
  /\ BagIn(r, resolving)
  /\ r.pc = "updateExp"
  /\ exp' = [exp EXCEPT ![r.userId] = r.exp]
  /\ triviaUsers' = SetExp(triviaUsers, r.userId, r.exp)
  /\ onlineUsers' = SetExp(onlineUsers, r.userId, r.exp)
  /\ resolving' = (resolving (-) One(r)) (+)
                    One([r EXCEPT !.pc = "markAnswered", !.qid = currentQuestion,
                                  !.wrote = onlineUsers' # onlineUsers])
  /\ out' = {}
  /\ dropped' = NoSocket
  /\ UNCHANGED <<roomUsers, roundVars, timerVars, tokens, balance, used,
                 answeredBy, startingQuestion, joining, answering, starting, sampled,
                 closed, credits>>

\* emitResults from the return of markAnswered to its end; reading
\* currentQuestion.reward_amount throws when the question is gone
ResumeMarkAnswered(r) ==
  /\ BagIn(r, resolving)
  /\ r.pc = "markAnswered"
  /\ resolving' = resolving (-) One(r)
  /\ answeredBy' = IF r.qid # NoQuestion
                   THEN [answeredBy EXCEPT ![r.qid] = r.userId]
                   ELSE answeredBy
  /\ IF currentQuestion = NoQuestion
     THEN /\ out' = {}
          /\ UNCHANGED <<currentQuestion, submissions, firstCorrectUser,
                         winnerDeclared, waitStartTime, roundTimeout,
                         waitTimeout, resultTimeout, timers>>
     ELSE FinishResults(timers, roundTimeout, resultTimeout, triviaUsers,
                        onlineUsers, r.special, r.userId,
                        {Ev(r.socketId, "quiz:winner", r.exp, currentRound,
                            r.userId, "")})
  /\ dropped' = NoSocket
  /\ UNCHANGED <<roomVars, currentRound, questionStartTime, disconnectTimers,
                 tokens, balance, exp, used, startingQuestion, joining,
                 answering, starting, sampled, closed, credits>>


\* a ledger call of the emitResults run r rejects: emitResults has no catch,
\* the run ends where it is
EmitResultsThrows(r) ==
  /\ BagIn(r, resolving)
  /\ resolving' = resolving (-) One(r)
  /\ out' = {}
  /\ dropped' = NoSocket
  /\ UNCHANGED <<roomVars, roundVars, timerVars, ledgerVars, startingQuestion,
                 joining, answering, starting, sampled, closed, credits>>

\* --------------------------------------------------------- startNewQuestion
\* the waiting timer fires: the callback, and startNewQuestion up to the
\* await of getAndUpdateQuestion
WaitTimeout ==
  LET t == Timer("wait", NoUser, 0) IN
  /\ t \in timers
  /\ currentRound < MaxRound
  /\ timers' = timers \ {t}
  /\ waitTimeout' = NoTimer
  /\ waitStartTime' = NoTime
  /\ IF startingQuestion
     THEN /\ out' = {}
          /\ UNCHANGED <<startingQuestion, starting, sampled>>
     ELSE IF Length(triviaUsers) < MIN_PLAYERS
     THEN /\ out' = {Ev(s, "quiz:stopped", 0, 0, NoUser, "") :
                       s \in SocketsOf(triviaUsers)}
          /\ UNCHANGED <<startingQuestion, starting, sampled>>
     ELSE /\ startingQuestion' = TRUE
          /\ starting' = starting + 1
          /\ UNCHANGED sampled
          /\ out' = {}
  /\ dropped' = NoSocket
  /\ UNCHANGED <<roomVars, roundVars, roundTimeout, resultTimeout,
                 disconnectTimers, ledgerVars, joining, answering, resolving,
                 closed, credits>>

\* GameService.getAndUpdateQuestion: the rows its $match selects
Eligible == {q \in Questions : used[q] = FALSE \/ answeredBy[q] = NoUser}

\* whether the special user auto-answers question q; random tells whether
\* Math.random() < 0.3
ShouldAnswer(q, random) ==
  \/ Difficulty(q) = "hard"
  \/ Difficulty(q) = "medium"
  \/ (Difficulty(q) = "easy" /\ random)

\* startNewQuestion resumes with no question: question generation gave nothing
NoMoreQuestions ==
  /\ starting > 0
  /\ sampled = NoQuestion
  /\ Eligible = {}
  /\ starting' = starting - 1
  /\ startingQuestion' = FALSE
  /\ out' = {Ev(s, "quiz:end", 0, 0, NoUser, "No more questions available!") :
               s \in SocketsOf(triviaUsers)}
  /\ dropped' = NoSocket
  /\ UNCHANGED <<roomVars, roundVars, timerVars, ledgerVars, joining,
                 answering, sampled, resolving, closed, credits>>

\* the $sample stage of getAndUpdateQuestion answers with question q; the
\* update that flags it is still to be sent
SampleQuestion(q) ==
  /\ starting > 0
  /\ sampled = NoQuestion
  /\ q \in Eligible
  /\ sampled' = q
  /\ out' = {}
  /\ dropped' = NoSocket
  /\ UNCHANGED <<roomVars, roundVars, timerVars, ledgerVars, startingQuestion,
                 joining, answering, starting, resolving, closed, credits>>

\* getAndUpdateQuestion rejects: the catch and finally blocks
StartNewQuestionCatch ==
  /\ starting > 0
  /\ starting' = starting - 1
  /\ sampled' = NoQuestion
  /\ startingQuestion' = FALSE
  /\ out' = {Ev(s, "quiz:error", 0, 0, NoUser, "Failed to fetch question") :
               s \in SocketsOf(triviaUsers)}
  /\ dropped' = NoSocket
  /\ UNCHANGED <<roomVars, roundVars, timerVars, ledgerVars, joining,
                 answering, resolving, closed, credits>>

\* a round number that is not incremented
NextRoundSame == currentRound

\* currentRound++
NextRound == currentRound + 1

\* findByIdAndUpdate flags question q used and startNewQuestion resumes with it
StartQuestion(q, random) ==
  LET auto == Has(triviaUsers, SPECIAL_USER_ID) /\ ShouldAnswer(q, random)
      arm == auto /\ resultTimeout = NoTimer
      kept == ClearTimeout(timers, "round", NoUser, roundTimeout)
  IN
  /\ starting > 0
  /\ starting' = starting - 1
  /\ sampled' = NoQuestion
  /\ startingQuestion' = FALSE
  /\ used' = [used EXCEPT ![q] = TRUE]
  /\ winnerDeclared' = FALSE
  /\ currentRound' = NextRound
  /\ currentQuestion' = q
  /\ questionStartTime' = 0
  /\ submissions' = NoSubmissions
  /\ firstCorrectUser' = IF auto THEN SPECIAL_USER_ID ELSE NoUser
  /\ resultTimeout' = IF arm THEN RESULT_DELAY ELSE resultTimeout
  /\ roundTimeout' = QUESTION_DURATION
  /\ timers' = kept
       \cup (IF arm THEN {Timer("result", NoUser, RESULT_DELAY)} ELSE {})
       \cup {Timer("round", NoUser, QUESTION_DURATION)}
  /\ out' = {Ev(s, "quiz:question", QUESTION_DURATION, NextRound, NoUser, q) :
               s \in SocketsOf(triviaUsers)}
  /\ dropped' = NoSocket
  /\ UNCHANGED <<roomVars, waitStartTime, waitTimeout, disconnectTimers,
                 tokens, balance, exp, answeredBy, joining, answering,
                 resolving, closed, credits>>

\* startNewQuestion resumes with the reserved question q: both stages of
\* getAndUpdateQuestion reach the ledger with nothing in between
StartNewQuestion(q, random) ==
  /\ sampled = NoQuestion
  /\ q \in Eligible
  /\ StartQuestion(q, random)

\* startNewQuestion resumes with the question its $sample stage picked
StartSampledQuestion(random) ==
  /\ sampled # NoQuestion
  /\ StartQuestion(sampled, random)

\* --------------------------------------------------------------------- next
\* the clock, the timers and the resumptions of suspended handlers
Machine ==
  \/ Tick
  \/ WaitTimeout
  \/ NoMoreQuestions
  \/ \E q \in Questions, random \in BOOLEAN : StartNewQuestion(q, random)
  \/ ResultTimeout
  \/ RoundTimeout

\* the rewarding of a winner
Rewarding ==
  \/ \E r \in BagToSet(resolving) : ResumeAddBalance(r)
  \/ \E r \in BagToSet(resolving) : ResumeUpdateExp(r)
  \/ \E r \in BagToSet(resolving) : ResumeMarkAnswered(r)

\* room:join of the trivia room from the connections ss
RoomJoins(ss) ==
  \E s \in ss : RoomJoin(s)

\* room:leave of the trivia room from the connections ss
RoomLeaves(ss) ==
  \E s \in ss : RoomLeave(s)

\* the connections ss close, and the grace timers fire
Disconnects(ss) ==
  \/ \E s \in ss : Disconnect(s)
  \/ \E u \in Users : GraceTimeout(u)

\* quiz:answer with the texts tt from the connections ss
Answers(ss, tt) ==
  \E s \in ss, text \in tt : QuizAnswer(s, text)

\* the same, naming another round than the current one
StaleAnswers(ss, tt) ==
  \E s \in ss, text \in tt : QuizAnswerStaleRound(s, text)

\* the return of useToken to a suspended quiz:answer handler
Deductions ==
  \E h \in BagToSet(answering) : QuizAnswerResume(h)

\* user:join from the connections ss
Joins(ss) ==
  \/ \E s \in ss : UserJoin(s)
  \/ \E j \in joining : UserJoinResume(j)

\* two players in the trivia room: a stays and answers right, b comes and
\* goes and answers right or wrong
Next ==
  \/ Machine
  \/ Rewarding
  \/ RoomJoins({"a1", "b1"})
  \/ RoomLeaves({"b1"})
  \/ Answers({"a1"}, {" paris "})
  \/ Answers({"b1"}, {" paris ", "Rome"})
  \/ Deductions

Spec == Init /\ [][Next]_vars

\* the same, with answers that name another round than the current one
NextStale ==
  \/ Next
  \/ StaleAnswers({"a1"}, {" paris "})

SpecStale == Init /\ [][NextStale]_vars

\* two players joining and leaving, with user:join, and nobody answering
NextSync ==
  \/ Tick
  \/ WaitTimeout
  \/ \E q \in Questions, random \in BOOLEAN : StartNewQuestion(q, random)
  \/ RoundTimeout
  \/ RoomJoins({"a1", "b1"})
  \/ RoomLeaves({"b1"})
  \/ Joins({"a1", "b1"})

SpecSync == Init /\ [][NextSync]_vars

\* a joins, closes its connection and comes back on another one; b comes and
\* goes and answers right
NextGrace ==
  \/ Machine
  \/ Rewarding
  \/ RoomJoins({"a1", "a2", "b1"})
  \/ RoomLeaves({"b1"})
  \/ Joins({"a1"})
  \/ Disconnects({"a1"})
  \/ Answers({"b1"}, {" paris "})
  \/ Deductions

SpecGrace == Init /\ [][NextGrace]_vars

\* a joins, closes its connection and comes back on another one with
\* user:join or room:join; b joins the room; nobody answers
NextReconnect ==
  \/ Tick
  \/ WaitTimeout
  \/ \E q \in Questions, random \in BOOLEAN : StartNewQuestion(q, random)
  \/ RoundTimeout
  \/ RoomJoins({"a1", "a2", "b1"})
  \/ Joins({"a1", "a2"})
  \/ Disconnects({"a1"})

SpecReconnect == Init /\ [][NextReconnect]_vars

\* a joins and answers right on a1, closes a1 and comes back on a2; b is in
\* the room
NextReturn ==
  \/ Machine
  \/ Rewarding
  \/ RoomJoins({"a1", "a2", "b1"})
  \/ Joins({"a1", "a2"})
  \/ Disconnects({"a1"})
  \/ Answers({"a1"}, {" paris "})
  \/ Deductions

SpecReturn == Init /\ [][NextReturn]_vars

\* the special user s sits in the room with a and b, who both answer right
NextForced ==
  \/ Machine
  \/ Rewarding
  \/ RoomJoins({"a1", "b1", "s1"})
  \/ Answers({"a1", "b1"}, {" paris "})
  \/ Deductions

SpecForced == Init /\ [][NextForced]_vars

\* payloads without a required field from the connections ss
Malformed(ss) ==
  \/ \E s \in ss : UserJoinInvalid(s)
  \/ \E s \in ss : RoomJoinInvalid(s)
  \/ \E s \in ss : RoomLeaveInvalid(s)

\* a and b in the room; a answers right or sends quiz:answer without answer;
\* b sends payloads without a required field
NextMalformed ==
  \/ Machine
  \/ Rewarding
  \/ RoomJoins({"a1", "b1"})
  \/ Answers({"a1"}, {" paris ", NoText})
  \/ Deductions
  \/ Malformed({"b1"})

SpecMalformed == Init /\ [][NextMalformed]_vars

\* ledger calls that reject
Throws ==
  \/ \E r \in BagToSet(resolving) : EmitResultsThrows(r)
  \/ StartNewQuestionCatch

\* a and b in the room, a answers right, and any ledger call of emitResults
\* and startNewQuestion may reject
NextThrows ==
  \/ Machine
  \/ Rewarding
  \/ RoomJoins({"a1", "b1"})
  \/ Answers({"a1"}, {" paris "})
  \/ Deductions
  \/ Throws

SpecThrows == Init /\ [][NextThrows]_vars

\* a and b in the room, a answers right at any multiple of ShortQuantum
NextDeadline ==
  \/ TickShort
  \/ WaitTimeout
  \/ NoMoreQuestions
  \/ \E q \in Questions, random \in BOOLEAN : StartNewQuestion(q, random)
  \/ ResultTimeout
  \/ RoundTimeout
  \/ Rewarding
  \/ RoomJoins({"a1", "b1"})
  \/ Answers({"a1"}, {" paris "})
  \/ Deductions

SpecDeadline == Init /\ [][NextDeadline]_vars

\* a and b in the room, a answers right; the two stages of the reservation
\* reach the ledger one after the other, other ledger calls in between
NextReserve ==
  \/ Tick
  \/ WaitTimeout
  \/ NoMoreQuestions
  \/ \E q \in Questions : SampleQuestion(q)
  \/ \E random \in BOOLEAN : StartSampledQuestion(random)
  \/ ResultTimeout
  \/ RoundTimeout
  \/ Rewarding
  \/ RoomJoins({"a1", "b1"})
  \/ Answers({"a1"}, {" paris "})
  \/ Deductions

SpecReserve == Init /\ [][NextReserve]_vars

\* a and b in the room; a answers right or wrong from two connections at
\* once, so that several of a's submissions wait on useToken together
NextTokens ==
  \/ Machine
  \/ Rewarding
  \/ RoomJoins({"a1", "b1"})
  \/ Answers({"a1", "a2"}, {" paris ", "Rome"})
  \/ Deductions

SpecTokens == Init /\ [][NextTokens]_vars

\* a registers with user:join and enters the room, b enters the room without
\* user:join; both connections may close and neither comes back
NextGone ==
  \/ Tick
  \/ WaitTimeout
  \/ \E q \in Questions, random \in BOOLEAN : StartNewQuestion(q, random)
  \/ RoundTimeout
  \/ RoomJoins({"a1", "b1"})
  \/ Joins({"a1"})
  \/ Disconnects({"a1", "b1"})

\* time passes, a timer that is due fires, and a ledger call returns
FairGone ==
  /\ WF_vars(Tick)
  /\ WF_vars(WaitTimeout)
  /\ WF_vars(RoundTimeout)
  /\ WF_vars(\E u \in Users : GraceTimeout(u))
  /\ WF_vars(\E j \in joining : UserJoinResume(j))
  /\ WF_vars(\E q \in Questions, random \in BOOLEAN : StartNewQuestion(q, random))

SpecGone == Init /\ [][NextGone]_vars /\ FairGone

\* a and b in the room, b comes and goes, a answers right, and the
\* reservation of a question may reject
NextRest ==
  \/ Machine
  \/ Rewarding
  \/ StartNewQuestionCatch
  \/ RoomJoins({"a1", "b1"})
  \/ RoomLeaves({"b1"})
  \/ Answers({"a1"}, {" paris "})
  \/ Deductions

\* time passes, a timer that is due fires, and a ledger call returns
FairRest ==
  /\ WF_vars(Tick)
  /\ WF_vars(WaitTimeout)
  /\ WF_vars(ResultTimeout)
  /\ WF_vars(RoundTimeout)
  /\ WF_vars(NoMoreQuestions)
  /\ WF_vars(\E q \in Questions, random \in BOOLEAN : StartNewQuestion(q, random))
  /\ WF_vars(Rewarding)
  /\ WF_vars(Deductions)

SpecRest == Init /\ [][NextRest]_vars /\ FairRest

\* ------------------------------------------------------------------- claims

\* C1: for every round, the reward of the round's question is credited with
\* addBalance at most once.
C1_RewardedOncePerRound == \A r \in 1..MaxRound : credits[r] <= 1

\* the question is active and its deadline has passed
Late ==
  /\ currentQuestion # NoQuestion
  /\ questionStartTime # NoTime
  /\ questionStartTime >= QUESTION_DURATION

\* the round state and the tokens a quiz:answer can touch
answerVars == <<tokens, submissions, firstCorrectUser, timerVars>>

\* C2: a quiz:answer that arrives when QUESTION_DURATION or more seconds have
\* passed since the question started is dropped: no handler is left suspended
\* on useToken for it, and the step deducts no token, records no submission
\* and changes neither the first correct responder nor a timer.
C2_LateAnswerIgnored ==
  [][Late =>
       /\ \A s \in Sockets, t \in Texts : QuizAnswer(s, t) => dropped' = s
       /\ BagCardinality(answering') <= BagCardinality(answering)
       /\ (dropped' # NoSocket => UNCHANGED <<answerVars, answering>>)]_vars

\* a participant with a token has sent an answer after the deadline, and it
\* has been dropped
C2_Witness ==
  /\ Late
  /\ dropped # NoSocket
  /\ Has(triviaUsers, Owner(dropped))
  /\ tokens[Owner(dropped)] >= 1

\* the step of startNewQuestion that starts a question
QuestionStarts ==
  /\ starting' < starting
  /\ currentQuestion' # NoQuestion
  /\ questionStartTime' = 0
  /\ roundTimeout' = QUESTION_DURATION

\* C3: the round number never decreases; it grows by exactly one in the step
\* that starts a question and in no other step; the questions broadcast by
\* that step carry the new number, which no earlier question carried.
C3_RoundNumbers ==
  [][/\ currentRound' >= currentRound
     /\ (QuestionStarts => currentRound' = currentRound + 1)
     /\ (~QuestionStarts => currentRound' = currentRound)
     /\ \A e \in out' : e.ev = "quiz:question" => e.round = currentRound']_vars

\* the second question is broadcast after a connection has closed
C3_Witness ==
  /\ currentRound = 2
  /\ closed # {}
  /\ \E e \in out : e.ev = "quiz:question" /\ e.round = 2 /\ e.n = QUESTION_DURATION

\* C4: a wait-deadline timer and a question-deadline timer are never both
\* pending.
C4_NeverWaitAndQuestionTimer == ~(Pending("wait") # {} /\ Pending("round") # {})

\* C5: a recorded first correct responder is replaced by no later submission;
\* it changes only in a step that clears the submissions of the round (the
\* end of the round, or the start of the next question).
C5_FirstCorrectKept ==
  [][(firstCorrectUser # NoUser /\ firstCorrectUser' # firstCorrectUser) =>
       /\ submissions' = NoSubmissions
       /\ (firstCorrectUser' = NoUser \/ currentRound' = currentRound + 1)]_vars

\* b's correct answer has just been accepted while a is the first correct
\* responder, and a still is
C5_Witness ==
  /\ firstCorrectUser = "a"
  /\ submissions["a"] = "paris"
  /\ submissions["b"] = "paris"
  /\ \E e \in out : e.ev = "quiz:userUpdate" /\ e.who = "b"

\* the seconds left of the active question
Remaining ==
  IF questionStartTime >= QUESTION_DURATION
  THEN 0
  ELSE QUESTION_DURATION - questionStartTime

\* connection s has just joined: room:join answers room:joined, user:join
\* answers rooms:list
Joined(s) ==
  \/ \E e \in out : e.to = s /\ e.ev = "room:joined" /\ e.msg = "general"
  \/ \E e \in out : e.to = s /\ e.ev = "rooms:list"

\* C6: a participant that joins with user:join or room:join while a question
\* is active is sent that question with timeLeft = max(0, QUESTION_DURATION -
\* seconds since the question started); every quiz:question event carries that
\* value.
C6_QuestionSync ==
  /\ \A e \in out : e.ev = "quiz:question" =>
       /\ currentQuestion # NoQuestion
       /\ e.msg = currentQuestion
       /\ e.round = currentRound
       /\ e.n = Remaining
  /\ \A s \in Sockets :
       (Joined(s) /\ Has(triviaUsers, Owner(s)) /\ currentQuestion # NoQuestion)
         => \E e \in out : e.to = s /\ e.ev = "quiz:question"

\* a participant has been synced by user:join in the middle of a question
C6_Witness ==
  \E e \in out :
    /\ e.ev = "quiz:question"
    /\ e.n > 0
    /\ e.n < QUESTION_DURATION
    /\ \E f \in out : f.to = e.to /\ f.ev = "rooms:list"

\* C7: every quiz:waiting event carries timeLeft = WAIT_DURATION - seconds
\* since the waiting period started, and that value is > 0; a connection that
\* joins the room while that value is > 0 is sent the event.
C7_WaitingSync ==
  /\ \A e \in out : e.ev = "quiz:waiting" =>
       /\ waitStartTime # NoTime
       /\ e.n = WAIT_DURATION - waitStartTime
       /\ e.n > 0
  /\ \A e \in out :
       (/\ e.ev = "room:joined"
        /\ e.msg = "general"
        /\ waitStartTime # NoTime
        /\ waitStartTime < WAIT_DURATION)
         => \E f \in out : f.to = e.to /\ f.ev = "quiz:waiting"

\* a connection has joined the room when the waiting period had run out and
\* its timer had not fired yet, and has been sent no quiz:waiting
C7_Witness ==
  /\ waitStartTime # NoTime
  /\ waitStartTime >= WAIT_DURATION
  /\ \E e \in out : e.ev = "room:joined"
  /\ \A e \in out : e.ev # "quiz:waiting"

\* C8: a quiz:answer that names another round than the current one deducts no
\* token, records no submission and leaves the first correct responder alone.
C8_OtherRoundIgnored ==
  [][\A h \in BagToSet(answering) :
       (h.stale /\ answering' = answering (-) One(h))
         => UNCHANGED <<tokens, submissions, firstCorrectUser>>]_vars

\* connection s can have its quiz:answer accepted
MayAnswer(s) ==
  /\ Has(triviaUsers, Owner(s))
  /\ currentQuestion # NoQuestion

\* C9: a quiz:answer from a connection whose user is not in the trivia room,
\* or sent when no question is active, is dropped: it leaves no handler
\* suspended on useToken, deducts no token, records no submission and arms no
\* timer.
C9_OutsiderIgnored ==
  [][\A s \in Sockets :
       ~MayAnswer(s) =>
         /\ \A t \in Texts : QuizAnswer(s, t) => dropped' = s
         /\ \A h \in BagToSet(answering') :
              h.socketId = s => BagIn(h, answering)
         /\ (dropped' = s => UNCHANGED <<answerVars, answering>>)]_vars

\* a user with a token who has left the room has sent an answer to the
\* active question before its deadline, and it has been dropped
C9_Witness ==
  /\ dropped # NoSocket
  /\ ~Has(triviaUsers, Owner(dropped))
  /\ tokens[Owner(dropped)] >= 1
  /\ currentQuestion # NoQuestion
  /\ questionStartTime < QUESTION_DURATION

\* the event that tells a connection that the deduction failed
DeductionFailed(s) ==
  Ev(s, "quiz:error", 0, 0, NoUser, "User not found or insufficient tokens")

\* C10: when useToken returns to a quiz:answer handler whose user has no
\* token, the step emits one event, quiz:error to the connection that sent the
\* answer, and changes no token, submission, first correct responder, timer or
\* question.
C10_DeductionFailure ==
  [][\A h \in BagToSet(answering) :
       (tokens[h.userId] < 1 /\ answering' = answering (-) One(h)) =>
         /\ out' = {DeductionFailed(h.socketId)}
         /\ UNCHANGED <<answerVars, roundVars>>]_vars

\* a participant without tokens has answered the active question and has
\* been sent the error
C10_Witness ==
  /\ currentQuestion # NoQuestion
  /\ \E s \in Sockets :
       /\ DeductionFailed(s) \in out
       /\ tokens[Owner(s)] = 0
       /\ Has(triviaUsers, Owner(s))

\* the grace timers armed for user u
Grace(ts, u) == {t \in ts : t.kind = "grace" /\ t.user = u}

\* the step starts a user:join or a room:join of user u
Joins_(u) ==
  \E s \in Sockets :
    /\ Owner(s) = u
    /\ \/ [userId |-> u, socketId |-> s] \in joining' \ joining
       \/ Ev(s, "room:joined", 0, 0, NoUser, "general") \in out'

Waiting ==
  /\ waitStartTime # NoTime
  /\ Pending("wait") # {}
  /\ currentQuestion = NoQuestion

\* a due grace timer fires and leaves fewer than MIN_PLAYERS in the room
GraceStops ==
  /\ \E u \in Users : Timer("grace", u, 0) \in timers \ timers'
  /\ \E e \in out' : e.ev = "players:update"
  /\ Length(triviaUsers') < MIN_PLAYERS

\* C12: when a grace timer fires during the waiting period and leaves fewer
\* than 2 participants, the step cancels the wait timer, emits quiz:stopped
\* and keeps the round number, and it leaves nothing that starts a question
\* without a later join: no wait timer armed, no startNewQuestion suspended
\* on its reservation, no question active.
C12_GraceStopsWaiting ==
  [][(Waiting /\ GraceStops) =>
       /\ Pending("wait")' = {}
       /\ waitTimeout' = NoTimer
       /\ Ev(All, "quiz:stopped", 0, 0, NoUser, "") \in out'
       /\ currentRound' = currentRound
       /\ currentQuestion' = NoQuestion
       /\ starting' = 0]_vars

\* the step closes a connection, or starts or resumes a join
ComesOrGoes ==
  \/ closed' # closed
  \/ joining' # joining
  \/ \E e \in out' : e.ev = "room:joined"

\* the step starts a resolution that rewards a participant
Rewards(r) == resolving' = resolving (+) One(r) /\ r.pc = "addBalance"

NoWinner ==
  \E e \in out' : /\ e.ev = "quiz:end"
                  /\ e.msg # "No more questions available!"
                  /\ e.who = NoUser

C14_SpecialUserWins ==
  [][Has(triviaUsers, SPECIAL_USER_ID) =>
       /\ \A r \in BagToSet(resolving') :
            Rewards(r) => (r.userId = SPECIAL_USER_ID
                           /\ r.special = SPECIAL_USER_ID
                           /\ resolving' = resolving (+) One(r))
       /\ ~NoWinner]_vars

\* emitResults has picked the special user, who submitted nothing, in a round
\* whose first correct responder is a
C14_Witness ==
  /\ firstCorrectUser = "a"
  /\ submissions["a"] = "paris"
  /\ submissions[SPECIAL_USER_ID] = NoText
  /\ \E r \in BagToSet(resolving) :
       /\ r.pc = "addBalance"
       /\ r.userId = SPECIAL_USER_ID
       /\ r.round = currentRound
  /\ currentQuestion # NoQuestion

\* the step resumes the emitResults run r from its await at pc
Returns(r, pc) ==
  /\ r.pc = pc
  /\ CopiesIn(r, resolving') < CopiesIn(r, resolving)

\* the step emits an outcome of a round that has a winner
WinnerOutcome ==
  \E e \in out' : \/ e.ev = "quiz:winner"
                  \/ (e.ev = "quiz:end" /\ e.who # NoUser)

\* C15: an emitResults run with a winner calls addBalance, then updateExp,
\* then markAnswered, and emits its outcome events only after markAnswered
\* has returned; the return of addBalance raises the winner's balance by the
\* reward of the question, the return of updateExp raises the winner's exp by
\* one, and neither call touches anything else of the ledger.
C15_RewardOrder ==
  [][/\ \A r \in BagToSet(resolving) :
          /\ Returns(r, "addBalance") =>
                /\ balance' = [balance EXCEPT ![r.userId] = @ + r.reward]
                /\ \E q \in Questions : r.reward = Reward(q)
                /\ UNCHANGED <<exp, answeredBy>>
                /\ out' = {}
          /\ Returns(r, "updateExp") =>
                /\ exp' = [exp EXCEPT ![r.userId] = @ + 1]
                /\ UNCHANGED <<balance, answeredBy>>
                /\ out' = {}
          /\ Returns(r, "markAnswered") =>
                /\ UNCHANGED <<balance, exp>>
                /\ r.qid # NoQuestion => answeredBy'[r.qid] = r.userId
     /\ WinnerOutcome => \E r \in BagToSet(resolving) :
                            Returns(r, "markAnswered")]_vars

\* the error messages of the payload validations
InvalidMessages ==
  {"Invalid join payload", "Invalid room join request",
   "Invalid room leave payload"}

\* the step runs a handler to its return with a payload it finds invalid
Rejects ==
  \E e \in out' : e.ev = "quiz:error" /\ e.msg \in InvalidMessages

\* the step ends the quiz:answer handler h, whose payload has no answer
EndsWithoutAnswer(h) ==
  /\ h.answer = NoText
  /\ CopiesIn(h, answering') < CopiesIn(h, answering)

\* C16: a user:join, room:join or room:leave without a required field is
\* answered with quiz:error and changes nothing; a quiz:answer without answer
\* is answered with quiz:error and changes neither the tokens nor the
\* submissions, the first correct responder or the timers.
C16_MalformedRejected ==
  [][/\ Rejects => UNCHANGED <<roomVars, roundVars, timerVars, ledgerVars,
                               flightVars, closed, credits>>
     /\ \A h \in BagToSet(answering) :
          EndsWithoutAnswer(h) =>
            /\ \E e \in out' : e.to = h.socketId /\ e.ev = "quiz:error"
            /\ UNCHANGED <<roomVars, roundVars, timerVars, ledgerVars>>]_vars

\* a question is active, no timer of the round is pending and no emitResults
\* run is under way
Stuck ==
  /\ currentQuestion # NoQuestion
  /\ Pending("round") = {}
  /\ Pending("result") = {}
  /\ resolving = EmptyBag

\* C17: with ledger calls that reject in emitResults and startNewQuestion, an
\* active question always has its question timer or its result timer pending
\* or an emitResults run under way, and with no question active and no run
\* under way neither timer is pending.
C17_NoStuckRound ==
  /\ ~Stuck
  /\ (currentQuestion = NoQuestion /\ resolving = EmptyBag) =>
        (Pending("round") = {} /\ Pending("result") = {})

\* the step resumes startNewQuestion with no question reserved
ReturnsNoQuestion ==
  /\ starting' < starting
  /\ currentRound' = currentRound
  /\ \A e \in out' : e.ev # "quiz:error"

\* the exhaustion event to the connection s
Exhaustion(s) == Ev(s, "quiz:end", 0, 0, NoUser, "No more questions available!")

\* C18: when getAndUpdateQuestion returns null, startNewQuestion emits the
\* exhaustion event to every participant of the room, keeps the round number,
\* leaves no question active and no question timer, waiting timer or result
\* timer pending.
C18_Exhaustion ==
  [][ReturnsNoQuestion =>
       /\ out' = {Exhaustion(s) : s \in SocketsOf(triviaUsers)}
       /\ currentRound' = currentRound
       /\ currentQuestion' = NoQuestion
       /\ startingQuestion' = FALSE
       /\ Pending("round")' = {}
       /\ Pending("wait")' = {}
       /\ Pending("result")' = {}]_vars

\* the step broadcasts the list onlineUsers as the step leaves it
Broadcasts ==
  Ev(All, "players:update", Length(onlineUsers'), 0, NoUser, "") \in out'

\* an emitResults run has changed an entry of onlineUsers and has not yet
\* reached its players:update
Unsent ==
  \E r \in BagToSet(resolving) : r.pc = "markAnswered" /\ r.wrote

\* C19: a step of user:join or of the grace callback that changes onlineUsers
\* emits players:update with the changed list in the same step; after an
\* emitResults run has changed an entry, onlineUsers is not changed again
\* before that run's players:update, and the run ends with it.
C19_BroadcastAfterMutation ==
  [][/\ onlineUsers' # onlineUsers =>
          (Broadcasts \/ \E r \in BagToSet(resolving) : Returns(r, "updateExp"))
     /\ Unsent => onlineUsers' = onlineUsers
     /\ \A r \in BagToSet(resolving) :
          (Returns(r, "markAnswered") /\ r.wrote) => Broadcasts]_vars

\* the step ends an emitResults run that rewarded winner: the outcome loop
Resolves(winner) ==
  /\ currentQuestion # NoQuestion
  /\ \E r \in BagToSet(resolving) :
       Returns(r, "markAnswered") /\ r.userId = winner

\* the "correct but not fastest" outcome of participant p in a round won by
\* winner
NotFastest(p, winner) ==
  Ev(p.socketId, "quiz:end", WAIT_DURATION, currentRound, winner,
     "Correct, but not the fastest!")

\* C20: when emitResults ends a round with a winner, every participant of the
\* room other than the winner whose submission equals the answer (trimmed,
\* case-insensitive) is sent "Correct, but not the fastest!", the first
\* correct responder included when the special user is the winner.
C20_CorrectNotFastest ==
  [][\A winner \in Users : Resolves(winner) =>
       \A p \in triviaUsers :
         (/\ p.userId # winner
          /\ submissions[p.userId] # NoText
          /\ IsCorrect(submissions[p.userId], currentQuestion))
         => NotFastest(p, winner) \in out']_vars

\* the step runs room:join {room: "general"} from the connection s
RoomJoined(s) == Ev(s, "room:joined", 0, 0, NoUser, "general") \in out'

\* the step runs a join handler: room:join, or user:join after getUserById
JoinRuns == (\E s \in Sockets : RoomJoined(s)) \/ joining' # joining

\* nothing of the round is pending: no waiting timer, no question timer, no
\* question
NothingPending ==
  /\ Pending("wait") = {}
  /\ Pending("round") = {}
  /\ currentQuestion = NoQuestion

\* C21: a room:join that leaves at least MIN_PLAYERS participants in the room
\* while no waiting timer, no question timer and no question is there arms a
\* waiting timer of WAIT_DURATION and sends quiz:waiting with timeLeft =
\* WAIT_DURATION to every participant; a join that leaves fewer participants
\* starts no waiting period.
C21_JoinStartsWaiting ==
  [][/\ \A s \in Sockets :
          (RoomJoined(s) /\ Length(triviaUsers') >= MIN_PLAYERS /\ NothingPending)
          => /\ Pending("wait")' = {Timer("wait", NoUser, WAIT_DURATION)}
             /\ waitTimeout' = WAIT_DURATION
             /\ waitStartTime' = 0
             /\ \A p \in triviaUsers' :
                  Ev(p.socketId, "quiz:waiting", WAIT_DURATION, 0, NoUser, "")
                    \in out'
     /\ (JoinRuns /\ Length(triviaUsers') < MIN_PLAYERS)
          => /\ Pending("wait")' = Pending("wait")
             /\ UNCHANGED <<waitTimeout, waitStartTime>>]_vars

\* b's room:join has made two participants and started the waiting period
C21_Witness ==
  /\ Ev("b1", "room:joined", 0, 0, NoUser, "general") \in out
  /\ Length(triviaUsers) = MIN_PLAYERS
  /\ {Ev("a1", "quiz:waiting", WAIT_DURATION, 0, NoUser, ""),
      Ev("b1", "quiz:waiting", WAIT_DURATION, 0, NoUser, "")} \subseteq out
  /\ Pending("wait") = {Timer("wait", NoUser, WAIT_DURATION)}
  /\ currentQuestion = NoQuestion
  /\ currentRound = 0

\* C22: whenever startNewQuestion increments the round number and broadcasts
\* quiz:question, the trivia room has at least MIN_PLAYERS participants in
\* that step, whatever room:leave and grace callbacks ran while it was
\* suspended on getAndUpdateQuestion.
C22_StartsWithEnoughPlayers ==
  [][(currentRound' # currentRound \/ \E e \in out' : /\ e.ev = "quiz:question"
                                                       /\ e.n = QUESTION_DURATION
                                                       /\ starting' < starting)
       => Length(triviaUsers) >= MIN_PLAYERS]_vars

\* the step runs the callback of the waiting timer
WaitFires ==
  /\ Timer("wait", NoUser, 0) \in timers
  /\ Pending("wait")' = {}
  /\ \A e \in out' : e.ev # "players:update"

\* C23: when the waiting timer fires with fewer than MIN_PLAYERS participants
\* in the room, no question is started and no event is emitted.
C23_SilentIdle ==
  [][(WaitFires /\ Length(triviaUsers) < MIN_PLAYERS) =>
       /\ starting' = starting
       /\ UNCHANGED <<currentRound, currentQuestion>>
       /\ out' = {}]_vars

\* the step calls emitResults for an active question: the run suspends on
\* addBalance, or ends in the same step when nobody is rewarded
Begins ==
  /\ currentQuestion # NoQuestion
  /\ \/ \E r \in BagToSet(resolving') : Rewards(r)
     \/ (resolving' = resolving /\ ~winnerDeclared /\ winnerDeclared')

\* C24: emitResults begins only when the result timer armed for the first
\* correct answer has run its RESULT_DELAY, or when no correct answer is
\* recorded and QUESTION_DURATION has passed since the question.
C24_ResolutionNotEarly ==
  [][Begins =>
       IF firstCorrectUser # NoUser
       THEN \A t \in Pending("result") : t.rem = 0
       ELSE questionStartTime >= QUESTION_DURATION]_vars

\* the step runs emitResults to its end: the cleanup and what follows it
Finishes ==
  /\ currentQuestion # NoQuestion
  /\ currentQuestion' = NoQuestion
  /\ ~winnerDeclared
  /\ winnerDeclared'

\* C25: when emitResults reaches its end with at least MIN_PLAYERS
\* participants in the room, one waiting timer of WAIT_DURATION is pending
\* and no quiz:waiting is emitted; with fewer participants quiz:stopped is
\* emitted and no waiting, question or result timer is pending.
C25_AfterResolution ==
  [][Finishes =>
       IF Length(triviaUsers') >= MIN_PLAYERS
       THEN /\ Pending("wait")' = {Timer("wait", NoUser, WAIT_DURATION)}
            /\ waitStartTime' = 0
            /\ \A e \in out' : e.ev # "quiz:waiting"
       ELSE /\ Ev(All, "quiz:stopped", 0, 0, NoUser, "") \in out'
            /\ Pending("wait")' = {}
            /\ Pending("round")' = {}
            /\ Pending("result")' = {}]_vars

\* the variable that holds the handle of the timers of a kind
Slot(kind) ==
  CASE kind = "wait" -> waitTimeout
    [] kind = "round" -> roundTimeout
    [] kind = "result" -> resultTimeout

\* C26: at most one waiting timer, one question timer and one result timer is
\* pending, and the pending one is the one its handle variable holds (so that
\* the clearTimeout or the null test before the next setTimeout of the kind
\* reaches it).
C26_OneTimerPerKind ==
  \A kind \in {"wait", "round", "result"} :
    /\ Cardinality(Pending(kind)) <= 1
    /\ \A t \in Pending(kind) : Slot(kind) = t.rem

\* a waiting timer, a question timer and a result timer are pending together
C26_Witness ==
  /\ Pending("wait") # {}
  /\ Pending("round") # {}
  /\ Pending("result") # {}
  /\ currentQuestion # NoQuestion
  /\ firstCorrectUser # NoUser

\* the step runs the callback of a due timer of the kind (a grace callback,
\* which cancels the timers of the round, is not such a step)
Fires(kind) ==
  /\ Timer(kind, NoUser, 0) \in timers \ timers'
  /\ \A u \in Users : Timer("grace", u, 0) \notin timers \ timers'

\* C27: a question timer or result timer that starts emitResults for the
\* active question was armed in the round of that question, so the question
\* is at least as old as the timer's delay; a question timer or result timer
\* that fires with no question active changes nothing and emits nothing.
C27_NoStaleTimer ==
  [][/\ (Begins /\ Fires("result")) => questionStartTime >= RESULT_DELAY
     /\ (Begins /\ Fires("round")) => questionStartTime >= QUESTION_DURATION
     /\ \A kind \in {"round", "result"} :
          (Fires(kind) /\ currentQuestion = NoQuestion) =>
             /\ UNCHANGED <<roomVars, roundVars, ledgerVars, resolving,
                            waitStartTime, waitTimeout, starting>>
             /\ out' = {}]_vars

\* C28: startNewQuestion issues the next round number and makes its question
\* active only when no question is active and no emitResults run is under
\* way.
C28_OneLiveRound ==
  [][currentRound' # currentRound =>
       (currentQuestion = NoQuestion /\ resolving = EmptyBag)]_vars

\* C29: while no question is active nobody has a submission and there is no
\* first correct responder.
C29_RoundStateCleared ==
  currentQuestion = NoQuestion =>
    (submissions = NoSubmissions /\ firstCorrectUser = NoUser)

\* the step broadcasts question q as the question of a round
Broadcast(q) ==
  \E e \in out' : e.ev = "quiz:question" /\ e.msg = q

\* startNewQuestion resumes with question q reserved for a new round
Reserved(q) ==
  /\ currentRound' # currentRound
  /\ currentQuestion' = q

\* C30: a question is flagged used in the ledger by the time it is broadcast,
\* and a question reserved for a new round has no answered-by value set.
C30_ReservedOnce ==
  [][\A q \in Questions :
       /\ Broadcast(q) => used'[q]
       /\ Reserved(q) => answeredBy[q] = NoUser]_vars

\* the step records a submission of user u
Recorded(u) ==
  /\ submissions'[u] # submissions[u]
  /\ submissions'[u] # NoText

\* C31: no token count drops below zero, and a step that records a submission
\* of a user takes exactly one token from that user and none from the others.
C31_TokenPerSubmission ==
  [][\A u \in Users :
       /\ tokens'[u] >= 0
       /\ Recorded(u) =>
            (tokens' = [tokens EXCEPT ![u] = tokens[u] - 1])]_vars

\* a has spent its last token on a recorded submission while another of its
\* submissions still waits on useToken
C31_Witness ==
  /\ tokens["a"] = 0
  /\ submissions["a"] # NoText
  /\ \E h \in BagToSet(answering) : h.userId = "a"

\* a room:join of the trivia room has run
JoinedRoom == \E s \in Sockets : RoomJoined(s)

\* a room:leave of the trivia room has run
LeftRoom == \E s \in Sockets : Ev(s, "room:left", 0, 0, NoUser, "general") \in out'

\* a grace timer has fired
GraceRemoved ==
  /\ \E u \in Users : Timer("grace", u, 0) \in timers \ timers'
  /\ joining' = joining
  /\ ~JoinedRoom

\* C32: the count of the trivia room in the room directory always equals the
\* number of entries of the room membership, and a step of room:join,
\* room:leave or a grace timer broadcasts the directory with that count.
C32_DirectoryCount ==
  [][/\ roomUsers' = Length(triviaUsers')
     /\ (JoinedRoom \/ LeftRoom \/ GraceRemoved) =>
          Ev(All, "rooms:update", Length(triviaUsers'), 0, NoUser, "") \in out']_vars

\* a grace timer has removed a participant from a room that b is left in
C32_Witness ==
  /\ disconnectTimers["a"] = Fired
  /\ roomUsers = 1
  /\ Ev(All, "rooms:update", 1, 0, NoUser, "") \in out

\* the step is the end of an emitResults run that resolves the round
Resolved ==
  /\ currentQuestion # NoQuestion
  /\ currentQuestion' = NoQuestion
  /\ winnerDeclared'

\* the winner and round-outcome events the step sends to connection s
OutcomesTo(s) ==
  {e \in out' : e.to = s /\ e.ev \in {"quiz:winner", "quiz:end"}}

\* C33: the step that resolves a round sends every participant of the room
\* exactly one event that is the winner event or a round-outcome event.
C33_OneOutcomeEach ==
  [][Resolved =>
       \A p \in triviaUsers' : Cardinality(OutcomesTo(p.socketId)) = 1]_vars

\* the presence registry holds user u with a connection that is open
Live(u) ==
  \E x \in onlineUsers : x.userId = u /\ x.socketId \notin closed

\* the step takes user u out of the presence registry or the room membership
Removed(u) ==
  \/ Has(onlineUsers, u) /\ ~Has(onlineUsers', u)
  \/ Has(triviaUsers, u) /\ ~Has(triviaUsers', u)

\* C34: a grace timer never removes a user whose registered connection is
\* open from the presence registry or the room membership.
C34_LiveNotRemoved ==
  [][\A u \in Users : (GraceRemoved /\ Removed(u)) => ~Live(u)]_vars

\* user u is in the room membership with a connection that has closed
Gone(u) ==
  \E x \in triviaUsers : x.userId = u /\ x.socketId \in closed

\* C35: a participant whose connection has closed is eventually out of the
\* room membership, or in it with another connection.
C35_GoneRemoved == \A u \in Users : Gone(u) ~> ~Gone(u)

\* the step ends a join handler: room:join, or user:join after getUserById
JoinCompletes ==
  \/ \E s \in Sockets : RoomJoined(s)
  \/ \E j \in joining : joining' = joining \ {j}

\* C36: after a step that ends a join handler, every user with an entry in
\* both the presence registry and the room membership has the same
\* connection in the two entries.
C36_SameConnection ==
  [][JoinCompletes =>
       \A u \in Users :
         (Has(onlineUsers', u) /\ Has(triviaUsers', u)) =>
           Find(onlineUsers', u).socketId = Find(triviaUsers', u).socketId]_vars

\* the list holds at most one entry for every identity
OnePerIdentity(list) ==
  \A x, y \in list : x.userId = y.userId => x = y

\* C37: the presence registry and the room membership each hold at most one
\* entry per identity.
C37_OneEntryPerIdentity ==
  OnePerIdentity(onlineUsers) /\ OnePerIdentity(triviaUsers)

\* a user:join of a has just ended while another user:join of a is suspended
\* on getUserById
C37_Witness ==
  /\ Has(onlineUsers, "a")
  /\ \E e \in out : e.ev = "rooms:list"
  /\ \E j \in joining : j.userId = "a"

\* C38: whoever is recorded as first correct responder has an entry in
\* submissions, and whoever emitResults starts to reward has one too.
C38_WinnerHasAnswered ==
  [][/\ firstCorrectUser' # NoUser => submissions'[firstCorrectUser'] # NoText
     /\ \A r \in BagToSet(resolving') :
          Rewards(r) => submissions[r.userId] # NoText]_vars

\* the step resumes the quiz:answer handler h, which becomes the first
\* correct responder
BecomesFirst(h) ==
  /\ answering' = answering (-) One(h)
  /\ firstCorrectUser = NoUser
  /\ firstCorrectUser' = h.userId

\* the handler g of another participant arrived before h with a correct
\* answer and a token to pay for it, and is still suspended on useToken
ArrivedBefore(g, h) ==
  /\ g.userId # h.userId
  /\ g.socketId \in h.behind
  /\ h.socketId \notin g.behind
  /\ IsCorrect(g.answer, currentQuestion)
  /\ UseTokenMatches(g.userId)

\* C39: with no special user in the room, the handler that becomes the first
\* correct responder is not one that arrived after another participant's
\* correct submission.
C39_FirstArrivedWins ==
  [][\A h \in BagToSet(answering) :
       (BecomesFirst(h) /\ ~Has(triviaUsers, SPECIAL_USER_ID)) =>
         ~\E g \in BagToSet(answering) : ArrivedBefore(g, h)]_vars

\* the room has enough participants, no question is active and no waiting
\* timer is pending
Resting ==
  /\ Length(triviaUsers) >= MIN_PLAYERS
  /\ currentQuestion = NoQuestion
  /\ Pending("wait") = {}

\* C40: whenever the room has at least two participants with no active
\* question and no pending waiting timer, eventually a question is active, a
\* waiting timer is pending, or fewer than two participants are left.
C40_NeverRests == Resting ~> ~Resting

====
